---- MODULE Spec2Model ----
(***************************************************************************)
(* samber/slog-gin: the bounded body-capture wrappers (bodyWriter,         *)
(* bodyReader, src/dump.go) and the logging middleware (NewWithConfig,     *)
(* src/middleware.go), as a state machine of one request.                  *)
(*                                                                         *)
(* A byte slice is a sequence over Byte.  A bytes.Buffer is the sequence   *)
(* of its unread bytes (nothing in the program reads from the buffers      *)
(* before Finalize, so Len() is the sequence's length).  A nil *Buffer is  *)
(* hasBody = FALSE.                                                        *)
(***************************************************************************)
EXTENDS Integers, Sequences, FiniteSets, TLC

\* ---------------------------------------------------------------- bounds
\* The wrappers' capacities (RequestBodyMaxSize, ResponseBodyMaxSize) range over 0..MaxCap.
MaxCap == 3
\* The handler moves at most MaxBytes bytes, read or written, during one request,
MaxBytes == 4
\* in at most MaxOps calls of bodyWriter.Write.
MaxOps == 2

\* The byte values of the model.  No operation of the wrappers reads the value
\* of a byte, so two values are enough to tell any byte from its neighbours.
Byte == {0, 1}

RECURSIVE SlicesOfLen(_, _)
SlicesOfLen(A, n) ==
  IF n = 0 THEN {<<>>}
  ELSE {Append(s, x) : s \in SlicesOfLen(A, n - 1), x \in A}

\* Every slice of at most n bytes with values in A.
Slices(A, n) == UNION {SlicesOfLen(A, k) : k \in 0..n}

\* ---------------------------------------------------------------- helpers
\* Go's builtin min, of two and of three ints.
Min2(a, b) == IF a <= b THEN a ELSE b
Min3(a, b, c) == Min2(a, Min2(b, c))

\* s[:n] of a slice whose bounds are in range.
Prefix(s, n) == SubSeq(s, 1, n)

\* bytes.Buffer.Truncate(n): all but the first n unread bytes are discarded.
Truncate(body, n) == SubSeq(body, 1, n)

RECURSIVE Concat(_)
\* The concatenation of a sequence of slices.
Concat(ss) == IF ss = <<>> THEN <<>> ELSE Head(ss) \o Concat(Tail(ss))

RECURSIVE SumLen(_)
\* The sum of the lengths of a sequence of slices.
SumLen(ss) == IF ss = <<>> THEN 0 ELSE Len(Head(ss)) + SumLen(Tail(ss))

\* ---------------------------------------------------------------- errors
nil == "nil"
EOF == "EOF"
ErrSink == "sink error"
ErrSource == "source error"
errInvalidWrite == "invalid write result"
ErrShortWrite == "short write"

\* ---------------------------------------------------------------- bodyWriter
\* newBodyWriter allocating the buffer whatever recordBody says.
newBodyWriter_AlwaysBuffers(maxSize, recordBody) ==
  [hasBody |-> TRUE, body |-> <<>>, maxSize |-> maxSize, bytes |-> 0]

\* newBodyWriter: the buffer exists only when recordBody is set.
newBodyWriter(maxSize, recordBody) ==
  [hasBody |-> recordBody, body |-> <<>>, maxSize |-> maxSize, bytes |-> 0]

\* The argument of w.body.Truncate in bodyWriter.Write's overflow branch.
WriteTruncateArg(body, b, maxSize) == Min3(maxSize, Len(b), Len(body))

\* The upper bound of the slice of b that the overflow branch appends, taken
\* after the truncation.
WriteSliceArg(body, b, maxSize) ==
  Min2(maxSize - Len(Truncate(body, WriteTruncateArg(body, b, maxSize))), Len(b))

\* BodyAfterWrite without the capacity test: every write is appended whole.
BodyAfterWrite_Unbounded(body, b, maxSize) == body \o b

\* The capture buffer after bodyWriter.Write(b), for a non-nil buffer.
BodyAfterWrite(body, b, maxSize) ==
  IF Len(body) + Len(b) > maxSize
  THEN Truncate(body, WriteTruncateArg(body, b, maxSize))
         \o Prefix(b, WriteSliceArg(body, b, maxSize))
  ELSE body \o b

\* bodyWriter.Write panics when Truncate's argument is outside 0..Len() or,
\* after the truncation, the slice bound is outside 0..len(b).
WritePanics(w, b) ==
  /\ w.hasBody
  /\ Len(w.body) + Len(b) > w.maxSize
  /\ \/ WriteTruncateArg(w.body, b, w.maxSize) < 0
     \/ WriteTruncateArg(w.body, b, w.maxSize) > Len(w.body)
     \/ WriteSliceArg(w.body, b, w.maxSize) < 0
     \/ WriteSliceArg(w.body, b, w.maxSize) > Len(b)

\* bodyWriterWrite handing the wrapped writer only the part of b that was
\* captured, and answering for the whole of b.
bodyWriterWrite_ForwardsCaptured(w, b, sinkRes) ==
  [w |-> [w EXCEPT !.body = IF w.hasBody THEN BodyAfterWrite(w.body, b, w.maxSize)
                                         ELSE w.body,
                   !.bytes = w.bytes + Len(b)],
   forwarded |-> IF w.hasBody THEN Prefix(b, Min2(Len(b), w.maxSize)) ELSE b,
   ret |-> [n |-> Len(b), err |-> sinkRes.err]]

\* bodyWriterWrite counting the bytes the wrapped writer accepted instead of len(b).
bodyWriterWrite_CountsAccepted(w, b, sinkRes) ==
  [w |-> [w EXCEPT !.body = IF w.hasBody THEN BodyAfterWrite(w.body, b, w.maxSize)
                                         ELSE w.body,
                   !.bytes = w.bytes + sinkRes.n],
   forwarded |-> b,
   ret |-> sinkRes]

\* bodyWriter.Write(b) when the wrapped ResponseWriter answers sinkRes: the
\* wrapper afterwards, the slice handed to the wrapped writer, and the result.
bodyWriterWrite(w, b, sinkRes) ==
  [w |-> [w EXCEPT !.body = IF w.hasBody THEN BodyAfterWrite(w.body, b, w.maxSize)
                                         ELSE w.body,
                   !.bytes = w.bytes + Len(b)],
   forwarded |-> b,
   ret |-> sinkRes]

\* The relay window of bodyWriter.ReadFrom: 32 * 1024 bytes,
RelayWindow == 32768

\* or, for an *io.LimitedReader with fewer than that left, what is left (at least 1).
RelaySize(kind, limit) ==
  IF kind = "limited" /\ RelayWindow > limit
  THEN (IF limit < 1 THEN 1 ELSE limit)
  ELSE RelayWindow

\* RelayTurn adding what was read to the count, not what was written.
RelayTurn_CountsRead(written, nr, er, nw0, ew0) ==
  LET bad == nw0 < 0 \/ nr < nw0
      nw == IF bad THEN 0 ELSE nw0
      ew == IF bad /\ ew0 = nil THEN errInvalidWrite ELSE ew0
      count == IF nr > 0 THEN written + nr ELSE written
  IN IF nr > 0 /\ ew # nil THEN [written |-> count, done |-> TRUE, err |-> ew]
     ELSE IF nr > 0 /\ nr # nw
       THEN [written |-> count, done |-> TRUE, err |-> ErrShortWrite]
     ELSE IF er # nil
       THEN [written |-> count, done |-> TRUE, err |-> IF er # EOF THEN er ELSE nil]
     ELSE [written |-> count, done |-> FALSE, err |-> nil]

\* RelayTurn taking every count but the number of bytes read for an invalid one.
RelayTurn_ShortIsInvalid(written, nr, er, nw0, ew0) ==
  LET bad == nw0 # nr
      nw == IF bad THEN 0 ELSE nw0
      ew == IF bad /\ ew0 = nil THEN errInvalidWrite ELSE ew0
      count == IF nr > 0 THEN written + nw ELSE written
  IN IF nr > 0 /\ ew # nil THEN [written |-> count, done |-> TRUE, err |-> ew]
     ELSE IF nr > 0 /\ nr # nw
       THEN [written |-> count, done |-> TRUE, err |-> ErrShortWrite]
     ELSE IF er # nil
       THEN [written |-> count, done |-> TRUE, err |-> IF er # EOF THEN er ELSE nil]
     ELSE [written |-> count, done |-> FALSE, err |-> nil]

\* RelayTurn without the test of the source's error: the loop ends on a
\* failed write only.
RelayTurn_IgnoresSourceEnd(written, nr, er, nw0, ew0) ==
  LET bad == nw0 < 0 \/ nr < nw0
      nw == IF bad THEN 0 ELSE nw0
      ew == IF bad /\ ew0 = nil THEN errInvalidWrite ELSE ew0
      count == IF nr > 0 THEN written + nw ELSE written
  IN IF nr > 0 /\ ew # nil THEN [written |-> count, done |-> TRUE, err |-> ew]
     ELSE IF nr > 0 /\ nr # nw
       THEN [written |-> count, done |-> TRUE, err |-> ErrShortWrite]
     ELSE [written |-> count, done |-> FALSE, err |-> nil]

\* One turn of ReadFrom's relay loop after r.Read gave (nr, er) and, for
\* nr > 0, w.Write gave (nw0, ew0): the bytes written so far, whether the
\* loop ends, and the error it ends with.
RelayTurn(written, nr, er, nw0, ew0) ==
  LET bad == nw0 < 0 \/ nr < nw0
      nw == IF bad THEN 0 ELSE nw0
      ew == IF bad /\ ew0 = nil THEN errInvalidWrite ELSE ew0
      count == IF nr > 0 THEN written + nw ELSE written
  IN IF nr > 0 /\ ew # nil THEN [written |-> count, done |-> TRUE, err |-> ew]
     ELSE IF nr > 0 /\ nr # nw
       THEN [written |-> count, done |-> TRUE, err |-> ErrShortWrite]
     ELSE IF er # nil
       THEN [written |-> count, done |-> TRUE, err |-> IF er # EOF THEN er ELSE nil]
     ELSE [written |-> count, done |-> FALSE, err |-> nil]

\* ReadFrom hands the copy to the wrapped writer's own ReadFrom only when no
\* buffer exists and the wrapped writer is an io.ReaderFrom.
Delegates(w, sinkReaderFrom) == ~w.hasBody /\ sinkReaderFrom

\* The wrapper after the wrapped writer's ReadFrom reported n bytes.
bodyWriterDelegated(w, n) == [w EXCEPT !.bytes = w.bytes + n]

\* ---------------------------------------------------------------- bodyReader
\* newBodyReader: the buffer exists only when recordBody is set.
newBodyReader(maxSize, recordBody) ==
  [hasBody |-> recordBody, body |-> <<>>, maxSize |-> maxSize, bytes |-> 0]

\* The upper bound of the slice of b that bodyReader.Read appends.
ReadSliceArg(body, n, maxSize) ==
  IF Len(body) + n > maxSize THEN Min2(maxSize - Len(body), n) ELSE n

\* BodyAfterRead dropping a read that does not fit whole, instead of filling
\* the buffer to its capacity.
BodyAfterRead_DropsOverflow(body, b, n, maxSize) ==
  IF Len(body) + n > maxSize THEN body ELSE body \o Prefix(b, n)

\* The capture buffer after bodyReader.Read got n bytes in b, for a non-nil buffer.
BodyAfterRead(body, b, n, maxSize) ==
  IF Len(body) < maxSize THEN body \o Prefix(b, ReadSliceArg(body, n, maxSize))
  ELSE body

\* bodyReader.Read panics when the slice bound is outside 0..len(b).
ReadPanics(r, b, n) ==
  /\ r.hasBody
  /\ Len(r.body) < r.maxSize
  /\ \/ ReadSliceArg(r.body, n, r.maxSize) < 0
     \/ ReadSliceArg(r.body, n, r.maxSize) > Len(b)

\* bodyReaderRead answering with the number of bytes it captured, and with
\* no EOF while bytes were returned.
bodyReaderRead_ReportsCaptured(r, b, n, err) ==
  [r |-> [r EXCEPT !.body = IF r.hasBody THEN BodyAfterRead(r.body, b, n, r.maxSize)
                                         ELSE r.body,
                   !.bytes = r.bytes + n],
   ret |-> [n |-> IF r.hasBody THEN Min2(n, r.maxSize) ELSE n,
            err |-> IF err = EOF /\ n > 0 THEN nil ELSE err,
            b |-> b]]

\* bodyReader.Read(b) when the wrapped ReadCloser filled b and answered
\* (n, err): the wrapper afterwards and what the caller gets.
bodyReaderRead(r, b, n, err) ==
  [r |-> [r EXCEPT !.body = IF r.hasBody THEN BodyAfterRead(r.body, b, n, r.maxSize)
                                         ELSE r.body,
                   !.bytes = r.bytes + n],
   ret |-> [n |-> n, err |-> err, b |-> b]]


\* ---------------------------------------------------------------- middleware
\* The final status codes a handler can leave: 100..MaxStatus.
MaxStatus == 599
StatusCodes == 100..MaxStatus
\* net/http's StatusBadRequest and StatusInternalServerError.
StatusBadRequest == 400
StatusInternalServerError == 500
\* gin's status of a response the handler never set.
StatusOK == 200

\* The handler records at most MaxErrors errors (c.Error),
MaxErrors == 1
\* and the configuration holds at most MaxFilters filters.
MaxFilters == 2
\* The process serves at most MaxRequests requests, one after the other;
MaxRequests == 3
\* a header map holds at most MaxHeaders names;
MaxHeaders == 2
\* the handler attaches at most MaxAttrs attributes.
MaxAttrs == 2
\* at most MaxConc requests are in the middleware at a time.
MaxConc == 2

Methods == {"GET", "POST", "DELETE"}

\* slog's levels, as New configures them.
LevelInfo == "INFO"
LevelWarn == "WARN"
LevelError == "ERROR"

\* The filters a configuration can hold.  A Filter is a func(*gin.Context) bool;
\* these are the predicates over the finished request that the model draws from.
FilterSet == {"IgnoreDELETE", "IgnoreServerError"}

\* filter(c): whether the filter lets the record through.
FilterEval(f, m, st) ==
  CASE f = "IgnoreDELETE" -> m # "DELETE"
    [] f = "IgnoreServerError" -> st < StatusInternalServerError

RECURSIVE FilterLoop_NoEarlyReturn(_, _, _, _)
\* FilterLoop with the early return lost: every filter is evaluated and the
\* record is emitted whatever they answer.
FilterLoop_NoEarlyReturn(filters, i, m, st) ==
  IF i > Len(filters) THEN [evals |-> <<>>, pass |-> TRUE]
  ELSE [evals |-> <<i>> \o FilterLoop_NoEarlyReturn(filters, i + 1, m, st).evals,
        pass |-> TRUE]

RECURSIVE FilterLoop(_, _, _, _)
\* The loop over config.Filters from index i: the indices of the filters it
\* evaluates, and whether it falls through to the emission (no early return).
FilterLoop(filters, i, m, st) ==
  IF i > Len(filters) THEN [evals |-> <<>>, pass |-> TRUE]
  ELSE IF ~FilterEval(filters[i], m, st) THEN [evals |-> <<i>>, pass |-> FALSE]
  ELSE LET rest == FilterLoop(filters, i + 1, m, st)
       IN [evals |-> <<i>> \o rest.evals, pass |-> rest.pass]

\* LevelFor with the lower edge of the client-error band excluded.
LevelFor_EdgeExcluded(cfg, st) ==
  IF st > StatusBadRequest /\ st < StatusInternalServerError THEN cfg.ClientErrorLevel
  ELSE IF st >= StatusInternalServerError THEN cfg.ServerErrorLevel
  ELSE cfg.DefaultLevel

\* The level NewWithConfig selects for a final status.
LevelFor(cfg, st) ==
  IF st >= StatusBadRequest /\ st < StatusInternalServerError THEN cfg.ClientErrorLevel
  ELSE IF st >= StatusInternalServerError THEN cfg.ServerErrorLevel
  ELSE cfg.DefaultLevel

\* A message: a literal text, followed by the lines of an error summary.
IncomingRequest == [text |-> "Incoming request", lines |-> <<>>]

\* gin's c.Errors.String(): "" for no error, else one line "Error #i: e" per error.
ErrorsString(errs) ==
  [text |-> "", lines |-> [i \in 1..Len(errs) |-> <<"Error #", i, errs[i]>>]]

\* MessageFor selecting by the errors the handler recorded, not by the status.
MessageFor_ByErrors(st, errs) ==
  IF errs # <<>> THEN ErrorsString(errs) ELSE IncomingRequest

\* The message NewWithConfig selects for a final status.
MessageFor(st, errs) ==
  IF st >= StatusBadRequest /\ st < StatusInternalServerError THEN ErrorsString(errs)
  ELSE IF st >= StatusInternalServerError THEN ErrorsString(errs)
  ELSE IncomingRequest

\* ---------------------------------------------------------------- context
\* A string is a TLA+ string, "" the empty one.  A header map (http.Header) and
\* the context's store (c.Keys) are functions from names to values; a header
\* holds one value.
NoEntries == [k \in {} |-> ""]

\* m[k] = v on a Go map.
Put(m, k, v) == [n \in (DOMAIN m) \cup {k} |-> IF n = k THEN v ELSE m[n]]

\* The package variables and constants of the middleware.
RequestIDHeaderKey == "X-Request-Id"
RequestIDKey == "id"
TraceIDKey == "trace_id"
SpanIDKey == "span_id"
requestIDCtx == "slog-gin.request-id"
customAttributesCtxKey == "slog-gin.custom-attributes"

HiddenRequestHeaders ==
  {"authorization", "cookie", "set-cookie", "x-auth-token", "x-csrf-token", "x-xsrf-token"}

HiddenResponseHeaders == {"set-cookie"}

\* The header names of the model, as they are spelled in a header map.
HeaderNames ==
  {"Authorization", "authorization", "COOKIE", "Set-Cookie", "set-cookie",
   "X-Auth-Token", "x-csrf-token", "X-XSRF-TOKEN", "Content-Type", "X-Request-Id"}

\* strings.ToLower, on the header names of the model.
ToLower(k) ==
  CASE k \in {"Authorization", "authorization"} -> "authorization"
    [] k = "COOKIE" -> "cookie"
    [] k \in {"Set-Cookie", "set-cookie"} -> "set-cookie"
    [] k = "X-Auth-Token" -> "x-auth-token"
    [] k = "x-csrf-token" -> "x-csrf-token"
    [] k = "X-XSRF-TOKEN" -> "x-xsrf-token"
    [] k = "Content-Type" -> "content-type"
    [] k = "X-Request-Id" -> "x-request-id"

\* http.CanonicalHeaderKey, on the header names of the model.
CanonicalHeaderKey(k) ==
  CASE k \in {"Authorization", "authorization"} -> "Authorization"
    [] k = "COOKIE" -> "Cookie"
    [] k \in {"Set-Cookie", "set-cookie"} -> "Set-Cookie"
    [] k = "X-Auth-Token" -> "X-Auth-Token"
    [] k = "x-csrf-token" -> "X-Csrf-Token"
    [] k = "X-XSRF-TOKEN" -> "X-Xsrf-Token"
    [] k = "Content-Type" -> "Content-Type"
    [] k = "X-Request-Id" -> "X-Request-Id"

\* c.GetHeader(key): the value stored under the canonical form of key, or "".
GetHeader(h, key) ==
  IF CanonicalHeaderKey(key) \in DOMAIN h THEN h[CanonicalHeaderKey(key)] ELSE ""

\* c.Header(key, value) for a non-empty value: stored under the canonical form of key.
Header(h, key, value) == Put(h, CanonicalHeaderKey(key), value)

\* HeaderGroup comparing the names as they are spelled.
HeaderGroup_CaseSensitive(h, hidden) ==
  [k \in {n \in DOMAIN h : n \notin hidden} |-> h[k]]

\* The "header" group of a header map: every entry whose lowercased name is
\* not in the hidden set.
HeaderGroup(h, hidden) ==
  [k \in {n \in DOMAIN h : ToLower(n) \notin hidden} |-> h[k]]

\* uuid.New().String(): the n-th identifier the process generates.  Version 4
\* identifiers are 122 random bits; the model takes them to be all different.
uuidNew(n) == "uuid-" \o ToString(n)

\* SetupRequestID as the earlier revision has it: an identifier is generated
\* for every request, whatever the request carries.
SetupRequestID_AlwaysGenerates(cfg, reqH, respH, ks, n) ==
  IF cfg.WithRequestID
  THEN [requestID |-> uuidNew(n + 1),
        respHeader |-> Header(respH, RequestIDHeaderKey, uuidNew(n + 1)),
        keys |-> Put(ks, requestIDCtx, uuidNew(n + 1)),
        uuids |-> n + 1]
  ELSE [requestID |-> GetHeader(reqH, RequestIDHeaderKey), respHeader |-> respH,
        keys |-> ks, uuids |-> n]

\* NewWithConfig's handling of the request identifier, n identifiers having
\* been generated so far: the local requestID, the response headers, the
\* context's store and the number of identifiers generated, afterwards.
SetupRequestID(cfg, reqH, respH, ks, n) ==
  LET inbound == GetHeader(reqH, RequestIDHeaderKey)
      generates == cfg.WithRequestID /\ inbound = ""
      id == IF generates THEN uuidNew(n + 1) ELSE inbound
  IN [requestID |-> id,
      respHeader |-> IF generates THEN Header(respH, RequestIDHeaderKey, id) ELSE respH,
      keys |-> IF cfg.WithRequestID THEN Put(ks, requestIDCtx, id) ELSE ks,
      uuids |-> IF generates THEN n + 1 ELSE n]

\* GetRequestID(c): the identifier stored in the context, or "".
GetRequestID(ks) == IF requestIDCtx \in DOMAIN ks THEN ks[requestIDCtx] ELSE ""

\* AddCustomAttributes replacing what was attached before.
AddCustomAttributes_Overwrites(ks, attr) == Put(ks, customAttributesCtxKey, <<attr>>)

\* AddCustomAttributes(c, attr): the context's store afterwards.
AddCustomAttributes(ks, attr) ==
  IF customAttributesCtxKey \notin DOMAIN ks
  THEN Put(ks, customAttributesCtxKey, <<attr>>)
  ELSE Put(ks, customAttributesCtxKey, Append(ks[customAttributesCtxKey], attr))

\* No span is recording.
NoSpan == [recording |-> FALSE, traceID |-> "", spanID |-> ""]

\* extractTraceSpanID for the span of the request's context; an identifier a
\* span context does not have (HasTraceID, HasSpanID false) is "".
extractTraceSpanID(sp, withTraceID, withSpanID) ==
  IF ~(withTraceID \/ withSpanID) THEN <<>>
  ELSE IF ~sp.recording THEN <<>>
  ELSE (IF withTraceID /\ sp.traceID # ""
          THEN <<[key |-> TraceIDKey, value |-> sp.traceID]>> ELSE <<>>)
       \o (IF withSpanID /\ sp.spanID # ""
             THEN <<[key |-> SpanIDKey, value |-> sp.spanID]>> ELSE <<>>)

\* baseAttributes: the identifier, then the trace and span identifiers.
BaseAttributes(cfg, id, sp) ==
  (IF cfg.WithRequestID THEN <<[key |-> RequestIDKey, value |-> id]>> ELSE <<>>)
    \o extractTraceSpanID(sp, cfg.WithTraceID, cfg.WithSpanID)

\* The attributes the handler attached, as NewWithConfig reads them back.
CustomAttributes(ks) ==
  IF customAttributesCtxKey \in DOMAIN ks THEN ks[customAttributesCtxKey] ELSE <<>>

\* ---------------------------------------------------------------- state
VARIABLES
  pc,                   \* "setup", "handler" (inside c.Next()), "done"
  handler,              \* what the handler does: "reads", "writes", "responds", ...
  alphabet,             \* the byte values of the request body and of the handler
  config,               \* the Config given to NewWithConfig
  RequestBodyMaxSize,   \* the package variables
  ResponseBodyMaxSize,
  method,               \* c.Request.Method
  br,                   \* the bodyReader installed as c.Request.Body
  bw,                   \* the bodyWriter installed as c.Writer
  source,               \* the bytes the wrapped request body has yet to return
  got,                  \* every byte the wrapped request body has returned so far
  srcRet,               \* the last result of the wrapped body's Read: n, err, b
  readRet,              \* the last result of bodyReader.Read
  sink,                 \* the calls the wrapped ResponseWriter has received
  writes,               \* the slices given to bodyWriter.Write so far
  sinkRet,              \* the last result of the wrapped writer's Write: n, err
  ret,                  \* the last result of bodyWriter.Write or ReadFrom
  sinkReaderFrom,       \* whether the wrapped writer is an io.ReaderFrom
  copied,               \* the bytes the wrapped writer's own ReadFrom reported
  rf,                   \* the bodyWriter.ReadFrom call in progress, if any
  status,               \* c.Writer.Status()
  errors,               \* c.Errors
  evals,                \* the indices of the filters evaluated, in order
  log,                  \* the records given to logger.LogAttrs
  panicked,             \* whether a call has panicked
  reqHeader,            \* c.Request.Header
  respHeader,           \* c.Writer.Header()
  keys,                 \* c.Keys, the context's store
  requestID,            \* NewWithConfig's local requestID
  uuids,                \* the number of identifiers uuid.New has generated
  span,                 \* the span of c.Request.Context()
  attached,             \* the attributes given to AddCustomAttributes, in order
  served,               \* the requests served before this one: inbound and stored identifier
  nexts,                \* the number of calls of c.Next() for this request
  stalled,              \* whether the source of the relay answers (0, nil) for ever
  rfCall,               \* the latest ReadFrom call: its path, the wrapper and the
                        \* number of writes when it began, the turns of its relay
                        \* that read bytes, and the parity of the turns that read
                        \* nothing since the last one that did
  cur,                  \* the request whose invocation of the handler func is running
  parked                \* the invocations that are not running: for each request,
                        \* the locals of its invocation and what they point to

vars == <<pc, handler, alphabet, config, RequestBodyMaxSize, ResponseBodyMaxSize, method, br, bw,
          source, got, srcRet, readRet, sink, writes, sinkRet, ret,
          sinkReaderFrom, copied, rf, status, errors, evals, log, panicked,
          reqHeader, respHeader, keys, requestID, uuids, span, attached, served,
          nexts, stalled, rfCall, cur, parked>>

\* The request's identifier, headers, context and history,
ctxVars == <<reqHeader, respHeader, keys, requestID, uuids, span, attached, served, nexts>>
\* and what is recorded of the latest ReadFrom call.
copyVars == <<stalled, rfCall>>
\* Which invocation runs, and the ones that wait.
schedVars == <<cur, parked>>

\* No wrapper is installed before Setup.
NoWrapper == [hasBody |-> FALSE, body |-> <<>>, maxSize |-> 0, bytes |-> 0]
NoResult == [n |-> 0, err |-> nil]
NoRead == [n |-> 0, err |-> nil, b |-> <<>>]
\* No ReadFrom call is in progress.
NoReadFrom == [mode |-> "none", size |-> 0, left |-> 0, written |-> 0]
\* ReadFrom has not been called.
NoCall == [path |-> "none", w |-> NoWrapper, at |-> 0, turns |-> <<>>, idle |-> 0]

\* The locals of the running invocation of NewWithConfig's handler func and
\* what only they point to: the context c with its request, its writer and its
\* store, and the wrappers br and bw the invocation allocated.
Frame ==
  [pc |-> pc, handler |-> handler, alphabet |-> alphabet, method |-> method,
   br |-> br, bw |-> bw, source |-> source, got |-> got, srcRet |-> srcRet,
   readRet |-> readRet, sink |-> sink, writes |-> writes, sinkRet |-> sinkRet,
   ret |-> ret, sinkReaderFrom |-> sinkReaderFrom, copied |-> copied, rf |-> rf,
   status |-> status, errors |-> errors, evals |-> evals, panicked |-> panicked,
   reqHeader |-> reqHeader, respHeader |-> respHeader, keys |-> keys,
   requestID |-> requestID, span |-> span, attached |-> attached, nexts |-> nexts,
   stalled |-> stalled, rfCall |-> rfCall]

\* The entry of parked for the invocation that runs.
NoFrame == [pc |-> "running"]

\* The invocation of request i, running or not.
FrameOf(i) == IF i = cur THEN Frame ELSE parked[i]

\* An invocation as it is entered by a request: nothing installed, nothing
\* read or written, the status the writer starts with.
NewFrame(h, A, m, body, rdFrom, hdr, sp) ==
  [pc |-> "setup", handler |-> h, alphabet |-> A, method |-> m,
   br |-> NoWrapper, bw |-> NoWrapper, source |-> body, got |-> <<>>,
   srcRet |-> NoRead, readRet |-> NoRead, sink |-> <<>>, writes |-> <<>>,
   sinkRet |-> NoResult, ret |-> [op |-> "none", n |-> 0, err |-> nil],
   sinkReaderFrom |-> rdFrom, copied |-> 0, rf |-> NoReadFrom,
   status |-> StatusOK, errors |-> <<>>, evals |-> <<>>, panicked |-> FALSE,
   reqHeader |-> hdr, respHeader |-> NoEntries, keys |-> NoEntries,
   requestID |-> "", span |-> sp, attached |-> <<>>, nexts |-> 0,
   stalled |-> FALSE, rfCall |-> NoCall]

\* Resume giving the invocation the bodyWriter of the one that ran before it,
\* as if bw were a variable of NewWithConfig and not of the func it returns.
Resume_SharedWriter(f) == [f EXCEPT !.bw = bw]

\* What an invocation finds when it runs again: its own locals, as it left them.
Resume(f) == f

\* One request only: no other invocation exists.
Alone == cur = 1 /\ parked = <<>>

RECURSIVE SeqsUpTo(_, _)
\* Every sequence over S of at most n elements.
SeqsUpTo(S, n) ==
  IF n = 0 THEN {<<>>}
  ELSE SeqsUpTo(S, n - 1) \cup
       {Append(s, x) : s \in {t \in SeqsUpTo(S, n - 1) : Len(t) = n - 1}, x \in S}

\* The Config of New, with the body flags and the filters given.
ConfigWith(withReqBody, withRespBody, filters) ==
  [DefaultLevel |-> LevelInfo, ClientErrorLevel |-> LevelWarn,
   ServerErrorLevel |-> LevelError,
   WithRequestID |-> TRUE, WithRequestBody |-> withReqBody,
   WithRequestHeader |-> FALSE, WithResponseBody |-> withRespBody,
   WithResponseHeader |-> FALSE, WithSpanID |-> FALSE, WithTraceID |-> FALSE,
   Filters |-> filters]

\* The state when the middleware is entered by the first request, for a
\* configuration, capacities, and a request: method, body, headers and span.
\* The requests that run beside it are left to the specification.
InitRequest(h, A, cfg, reqMax, respMax, m, body, rdFrom, hdr, sp) ==
  /\ pc = "setup"
  /\ handler = h
  /\ alphabet = A
  /\ config = cfg
  /\ RequestBodyMaxSize = reqMax
  /\ ResponseBodyMaxSize = respMax
  /\ method = m
  /\ br = NoWrapper
  /\ bw = NoWrapper
  /\ source = body
  /\ got = <<>>
  /\ srcRet = NoRead
  /\ readRet = NoRead
  /\ sink = <<>>
  /\ writes = <<>>
  /\ sinkRet = NoResult
  /\ ret = [op |-> "none", n |-> 0, err |-> nil]
  /\ sinkReaderFrom = rdFrom
  /\ copied = 0
  /\ rf = NoReadFrom
  /\ status = StatusOK
  /\ errors = <<>>
  /\ evals = <<>>
  /\ log = <<>>
  /\ panicked = FALSE
  /\ reqHeader = hdr
  /\ respHeader = NoEntries
  /\ keys = NoEntries
  /\ requestID = ""
  /\ uuids = 0
  /\ span = sp
  /\ attached = <<>>
  /\ served = <<>>
  /\ nexts = 0
  /\ stalled = FALSE
  /\ rfCall = NoCall

\* The same for a request without headers and without a span, under New's
\* configuration but for the body flags and the filters.
InitWith(h, A, withReqBody, withRespBody, filters, reqMax, respMax, m, body, rdFrom) ==
  /\ InitRequest(h, A, ConfigWith(withReqBody, withRespBody, filters), reqMax, respMax, m, body, rdFrom, NoEntries, NoSpan)
  /\ Alone

\* ---------------------------------------------------------------- actions
\* NewWithConfig's handler up to and into c.Next(): the request identifier
\* is settled, both wrappers are installed and the handler chain is entered.
Setup ==
  /\ pc = "setup"
  /\ LET id == SetupRequestID(config, reqHeader, respHeader, keys, uuids) IN
       /\ requestID' = id.requestID
       /\ respHeader' = id.respHeader
       /\ keys' = id.keys
       /\ uuids' = id.uuids
  /\ br' = newBodyReader(RequestBodyMaxSize, config.WithRequestBody)
  /\ bw' = newBodyWriter(ResponseBodyMaxSize, config.WithResponseBody)
  /\ nexts' = nexts + 1
  /\ pc' = "handler"
  /\ UNCHANGED <<handler, alphabet, config, RequestBodyMaxSize, ResponseBodyMaxSize, method, source,
                 got, srcRet, readRet, sink, writes, sinkRet, ret,
                 sinkReaderFrom, copied, rf, status, errors, evals, log,
                 panicked, reqHeader, span, attached, served, copyVars, schedVars>>

\* What the wrapped ResponseWriter can answer to Write(b): a count, which a
\* misbehaving writer may put outside 0..len(b), and an error or none.
\* The writer of a handler that echoes accepts every write whole.
SinkResults(b) ==
  IF handler = "echoes" THEN {[n |-> Len(b), err |-> nil]}
  ELSE [n : (-1)..(Len(b) + 1), err : {nil, ErrSink}]

\* The bytes the handler may still move within the bounds.
Budget == MaxBytes - (Len(got) + SumLen(writes) + copied)

\* A call panics: the panic unwinds through c.Next() and NewWithConfig's
\* handler, which recovers nothing, so the request ends without a record.
Panic ==
  /\ panicked' = TRUE
  /\ pc' = "done"
  /\ UNCHANGED <<handler, alphabet, config, RequestBodyMaxSize, ResponseBodyMaxSize,
                 method, br, bw, source, got, srcRet, readRet, sink, writes, sinkRet,
                 ret, sinkReaderFrom, copied, rf, status, errors, evals, log,
                 ctxVars, copyVars, schedVars>>

\* The state after bodyWriter.Write(b) returned, the wrapped writer having
\* answered r; rf is left to the caller.
WriteCall(b, r) ==
  /\ bw' = bodyWriterWrite(bw, b, r).w
  /\ sink' = Append(sink, bodyWriterWrite(bw, b, r).forwarded)
  /\ writes' = Append(writes, b)
  /\ sinkRet' = r
  /\ ret' = [op |-> "Write", n |-> bodyWriterWrite(bw, b, r).ret.n,
             err |-> bodyWriterWrite(bw, b, r).ret.err]
  /\ UNCHANGED <<pc, handler, alphabet, config, RequestBodyMaxSize,
                 ResponseBodyMaxSize, method, br, source, got, srcRet, readRet,
                 sinkReaderFrom, copied, status, errors, evals, log, panicked,
                 ctxVars, copyVars, schedVars>>

\* The slices a handler gives to Write: any within the bounds or, for a
\* handler that echoes, any part of what it has read and not yet written.
WriteSlices ==
  IF handler = "echoes"
  THEN {b \in Slices(alphabet, Len(got) - SumLen(writes)) : b # <<>>}
  ELSE Slices(alphabet, Budget)

\* c.Writer.Write(b), called by the handler or, inside ReadFrom, by a source
\* that is an io.WriterTo.
Write ==
  /\ pc = "handler"
  /\ \/ handler \in {"writes", "serves", "echoes"} /\ rf.mode \in {"none", "writerto"}
     \/ handler = "copies" /\ rf.mode = "writerto"
  /\ Len(writes) < MaxOps
  /\ \E b \in WriteSlices : \E r \in SinkResults(b) :
       IF WritePanics(bw, b) THEN Panic
       ELSE /\ WriteCall(b, r)
            /\ rf' = [rf EXCEPT !.written = IF rf.mode = "writerto" THEN @ + Len(b)
                                             ELSE @]

\* The handler calls c.Writer.ReadFrom(r) and the wrapped writer's own
\* ReadFrom does the copy, reporting n bytes and an error or none.
ReadFromDelegate ==
  /\ pc = "handler"
  /\ handler \in {"writes", "copies"}
  /\ handler = "copies" => rfCall.path = "none"
  /\ rf.mode = "none"
  /\ Delegates(bw, sinkReaderFrom)
  /\ \E n \in 0..Budget : \E e \in {nil, ErrSink} :
       /\ bw' = bodyWriterDelegated(bw, n)
       /\ copied' = copied + n
       /\ ret' = [op |-> "ReadFrom", n |-> n, err |-> e]
  /\ rfCall' = [path |-> "delegate", w |-> bw, at |-> Len(writes), turns |-> <<>>, idle |-> 0]
  /\ UNCHANGED <<pc, handler, alphabet, config, RequestBodyMaxSize, ResponseBodyMaxSize, method, br,
                 source, got, srcRet, readRet, sink, writes, sinkRet,
                 sinkReaderFrom, rf, status, errors, evals, log, panicked,
                 ctxVars, stalled, schedVars>>

\* The handler calls c.Writer.ReadFrom(r) for an r that is an io.WriterTo:
\* r.WriteTo(w) takes over and calls w.Write as it likes.
ReadFromWriterTo ==
  /\ pc = "handler"
  /\ handler \in {"writes", "copies"}
  /\ handler = "copies" => rfCall.path = "none"
  /\ rf.mode = "none"
  /\ ~Delegates(bw, sinkReaderFrom)
  /\ rf' = [NoReadFrom EXCEPT !.mode = "writerto"]
  /\ rfCall' = [path |-> "writerto", w |-> bw, at |-> Len(writes), turns |-> <<>>, idle |-> 0]
  /\ UNCHANGED <<pc, handler, alphabet, config, RequestBodyMaxSize, ResponseBodyMaxSize, method, br, bw,
                 source, got, srcRet, readRet, sink, writes, sinkRet, ret,
                 sinkReaderFrom, copied, status, errors, evals, log, panicked,
                 ctxVars, stalled, schedVars>>

\* r.WriteTo(w) returns the bytes it wrote and an error or none, and ReadFrom
\* returns that.
WriterToReturn ==
  /\ pc = "handler"
  /\ rf.mode = "writerto"
  /\ \E e \in {nil, ErrSource} : ret' = [op |-> "ReadFrom", n |-> rf.written, err |-> e]
  /\ rf' = NoReadFrom
  /\ UNCHANGED <<pc, handler, alphabet, config, RequestBodyMaxSize, ResponseBodyMaxSize, method, br, bw,
                 source, got, srcRet, readRet, sink, writes, sinkRet,
                 sinkReaderFrom, copied, status, errors, evals, log, panicked,
                 ctxVars, copyVars, schedVars>>

\* The handler calls c.Writer.ReadFrom(r) for any other r: the relay loop is
\* entered with its window.  An *io.LimitedReader has `limit` bytes left.  The
\* source is one that answers (0, nil) for ever, or one that does not.
ReadFromRelay ==
  /\ pc = "handler"
  /\ handler \in {"writes", "copies"}
  /\ handler = "copies" => rfCall.path = "none"
  /\ rf.mode = "none"
  /\ ~Delegates(bw, sinkReaderFrom)
  /\ \/ rf' = [mode |-> "relay", size |-> RelaySize("plain", 0),
               left |-> RelayWindow, written |-> 0]
     \/ \E limit \in 0..Budget :
          rf' = [mode |-> "relay", size |-> RelaySize("limited", limit),
                 left |-> limit, written |-> 0]
  /\ stalled' \in BOOLEAN
  /\ rfCall' = [path |-> "relay", w |-> bw, at |-> Len(writes), turns |-> <<>>, idle |-> 0]
  /\ UNCHANGED <<pc, handler, alphabet, config, RequestBodyMaxSize, ResponseBodyMaxSize, method, br, bw,
                 source, got, srcRet, readRet, sink, writes, sinkRet, ret,
                 sinkReaderFrom, copied, status, errors, evals, log, panicked,
                 ctxVars, schedVars>>

\* What r.Read(buf) can answer in the relay loop: at most a window of bytes
\* (and, of a limited reader, at most what is left), with no error, with EOF,
\* or with a failure; a stalled source answers (0, nil) only.
RelayReads ==
  IF stalled THEN {<<>>}
  ELSE {b \in Slices(alphabet, Min3(rf.size, rf.left, Budget)) : Len(b) > 0 => Len(writes) < MaxOps}

RelayErrs == IF stalled THEN {nil} ELSE {nil, EOF, ErrSource}

\* One turn of the relay loop: r.Read, then w.Write of what was read, then
\* either the next turn or ReadFrom's return.
RelayStep ==
  /\ pc = "handler"
  /\ rf.mode = "relay"
  /\ \E b \in RelayReads : \E er \in RelayErrs :
     \E r \in (IF Len(b) > 0 THEN SinkResults(b) ELSE {NoResult}) :
       LET turn == RelayTurn(rf.written, Len(b), er, r.n, r.err)
           ended == [op |-> "ReadFrom", n |-> turn.written, err |-> turn.err]
       IN IF Len(b) > 0 /\ WritePanics(bw, b) THEN Panic
          ELSE IF Len(b) > 0
          THEN /\ bw' = bodyWriterWrite(bw, b, r).w
               /\ sink' = Append(sink, bodyWriterWrite(bw, b, r).forwarded)
               /\ writes' = Append(writes, b)
               /\ sinkRet' = r
               /\ ret' = IF turn.done THEN ended
                         ELSE [op |-> "Write", n |-> bodyWriterWrite(bw, b, r).ret.n,
                               err |-> bodyWriterWrite(bw, b, r).ret.err]
               /\ rf' = IF turn.done THEN NoReadFrom
                        ELSE [rf EXCEPT !.left = IF rf.size = RelayWindow THEN @
                                                  ELSE @ - Len(b),
                                        !.written = turn.written]
               /\ rfCall' = [rfCall EXCEPT !.turns =
                               Append(@, [nr |-> Len(b), nw |-> r.n, ew |-> r.err]),
                                           !.idle = 0]
               /\ UNCHANGED <<pc, handler, alphabet, config, RequestBodyMaxSize,
                              ResponseBodyMaxSize, method, br, source, got, srcRet,
                              readRet, sinkReaderFrom, copied, status, errors, evals,
                              log, panicked, ctxVars, stalled, schedVars>>
          ELSE /\ ret' = IF turn.done THEN ended ELSE ret
               /\ rf' = IF turn.done THEN NoReadFrom ELSE rf
               /\ rfCall' = [rfCall EXCEPT !.idle = IF turn.done THEN 0 ELSE 1 - @]
               /\ UNCHANGED <<pc, handler, alphabet, config, RequestBodyMaxSize,
                              ResponseBodyMaxSize, method, br, bw, source, got,
                              srcRet, readRet, sink, writes, sinkRet, sinkReaderFrom,
                              copied, status, errors, evals, log, panicked,
                              ctxVars, stalled, schedVars>>

\* What the wrapped request body can answer to Read(b) for len(b) = k: the
\* next n <= k bytes, with no error, with EOF once nothing is left, or with a
\* failure.
\* The body of a handler that echoes fills b and fails never.
SourceResults(k) ==
  IF handler = "echoes" THEN {[n |-> k, err |-> nil]}
  ELSE {[n |-> n, err |-> e] : n \in 0..Min3(k, Len(source), Budget),
                               e \in {nil, EOF, ErrSource}}

\* The lengths of the slices a handler gives to Read: any within the bounds
\* or, for a handler that echoes, any that the rest of the body fills.
ReadSizes == IF handler = "echoes" THEN 1..Len(source) ELSE 0..MaxBytes

\* A fresh caller's slice of k bytes, as make([]byte, k) gives it.
Zeroes(k) == [i \in 1..k |-> 0]

\* The handler calls c.Request.Body.Read(b) with len(b) = k.
Read ==
  /\ pc = "handler"
  /\ handler \in {"reads", "serves", "echoes"}
  /\ \E k \in ReadSizes : \E r \in SourceResults(k) :
       /\ r.err = EOF => r.n = Len(source)
       /\ LET b == Prefix(source, r.n) \o Zeroes(k - r.n) IN
            IF ReadPanics(br, b, r.n) THEN Panic
            ELSE /\ br' = bodyReaderRead(br, b, r.n, r.err).r
                 /\ source' = SubSeq(source, r.n + 1, Len(source))
                 /\ got' = got \o Prefix(source, r.n)
                 /\ srcRet' = [n |-> r.n, err |-> r.err, b |-> b]
                 /\ readRet' = bodyReaderRead(br, b, r.n, r.err).ret
                 /\ UNCHANGED <<pc, handler, alphabet, config, RequestBodyMaxSize,
                                ResponseBodyMaxSize, method, bw, sink, writes, sinkRet,
                                ret, sinkReaderFrom, copied, rf, status, errors, evals,
                                log, panicked, ctxVars, copyVars, schedVars>>

\* The statuses a handler leaves: any, for one that only responds; one of
\* each band, for one that also moves bytes.
StatusChoices ==
  IF handler = "responds" THEN StatusCodes
  ELSE {StatusOK, StatusBadRequest, StatusInternalServerError}

\* The handler sets the response status.
SetStatus ==
  /\ pc = "handler"
  /\ handler \in {"responds", "serves"}
  /\ \E st \in StatusChoices : status' = st
  /\ UNCHANGED <<pc, handler, alphabet, config, RequestBodyMaxSize, ResponseBodyMaxSize, method, br, bw,
                 source, got, srcRet, readRet, sink, writes, sinkRet, ret,
                 sinkReaderFrom, copied, rf, errors, evals, log, panicked,
                 ctxVars, copyVars, schedVars>>

\* The errors a handler can record.
ErrorSet == {"e1"}

\* The handler records an error (c.Error).
AddError ==
  /\ pc = "handler"
  /\ handler = "responds"
  /\ Len(errors) < MaxErrors
  /\ \E e \in ErrorSet : errors' = Append(errors, e)
  /\ UNCHANGED <<pc, handler, alphabet, config, RequestBodyMaxSize, ResponseBodyMaxSize, method, br, bw,
                 source, got, srcRet, readRet, sink, writes, sinkRet, ret,
                 sinkReaderFrom, copied, rf, status, evals, log, panicked,
                 ctxVars, copyVars, schedVars>>

\* The handler sets a response header, spelled as it likes.
HeaderValues == {"v"}

SetHeader ==
  /\ pc = "handler"
  /\ handler = "decorates"
  /\ \E k \in HeaderNames, v \in HeaderValues :
       /\ Cardinality(DOMAIN Put(respHeader, k, v)) <= MaxHeaders
       /\ respHeader' = Put(respHeader, k, v)
  /\ UNCHANGED <<pc, handler, alphabet, config, RequestBodyMaxSize, ResponseBodyMaxSize, method, br, bw,
                 source, got, srcRet, readRet, sink, writes, sinkRet, ret,
                 sinkReaderFrom, copied, rf, status, errors, evals, log, panicked,
                 reqHeader, keys, requestID, uuids, span, attached, served, nexts,
                 copyVars, schedVars>>

\* The attributes a handler can attach.
AttrSet ==
  {[key |-> "user", value |-> "u1"], [key |-> "user", value |-> "u2"],
   [key |-> "tenant", value |-> "t1"]}

\* The handler calls AddCustomAttributes(c, attr).
Attach ==
  /\ pc = "handler"
  /\ handler = "attaches"
  /\ Len(attached) < MaxAttrs
  /\ \E attr \in AttrSet :
       /\ keys' = AddCustomAttributes(keys, attr)
       /\ attached' = Append(attached, attr)
  /\ UNCHANGED <<pc, handler, alphabet, config, RequestBodyMaxSize, ResponseBodyMaxSize, method, br, bw,
                 source, got, srcRet, readRet, sink, writes, sinkRet, ret,
                 sinkReaderFrom, copied, rf, status, errors, evals, log, panicked,
                 reqHeader, respHeader, requestID, uuids, span, served, nexts,
                 copyVars, schedVars>>

\* requestAttributes and responseAttributes, as far as the claims go: the
\* method, the status, the lengths, the bodies and the header groups.
RequestGroup ==
  [method |-> method, length |-> br.bytes,
   hasBody |-> config.WithRequestBody,
   body |-> IF config.WithRequestBody THEN br.body ELSE <<>>,
   hasHeader |-> config.WithRequestHeader,
   header |-> IF config.WithRequestHeader
              THEN HeaderGroup(reqHeader, HiddenRequestHeaders) ELSE NoEntries]

ResponseGroup ==
  [status |-> status, length |-> bw.bytes,
   hasBody |-> config.WithResponseBody,
   body |-> IF config.WithResponseBody THEN bw.body ELSE <<>>,
   hasHeader |-> config.WithResponseHeader,
   header |-> IF config.WithResponseHeader
              THEN HeaderGroup(respHeader, HiddenResponseHeaders) ELSE NoEntries]

\* Record as it would be were it assembled before c.Next().
Record_BeforeNext ==
  [level |-> LevelFor(config, StatusOK),
   msg |-> MessageFor(StatusOK, <<>>),
   request |-> [RequestGroup EXCEPT !.length = 0, !.body = <<>>],
   response |-> [ResponseGroup EXCEPT !.status = StatusOK, !.length = 0, !.body = <<>>],
   attributes |-> <<[key |-> "request"], [key |-> "response"]>>
                    \o BaseAttributes(config, requestID, span)]

\* The record NewWithConfig assembles after c.Next(): the level, the message
\* and the attributes in their order, an attribute being its key and its
\* value.  The values of the two groups are the fields request and response.
Record ==
  [level |-> LevelFor(config, status),
   msg |-> MessageFor(status, errors),
   request |-> RequestGroup,
   response |-> ResponseGroup,
   attributes |-> <<[key |-> "request"], [key |-> "response"]>>
                    \o BaseAttributes(config, requestID, span)
                    \o CustomAttributes(keys)]

\* c.Next() returns and NewWithConfig's handler runs to its end: the filters,
\* then the emission.
Finalize ==
  /\ pc = "handler"
  /\ rf.mode = "none"
  /\ LET run == FilterLoop(config.Filters, 1, method, status) IN
       /\ evals' = run.evals
       /\ log' = IF run.pass THEN Append(log, Record) ELSE log
  /\ pc' = "done"
  /\ UNCHANGED <<handler, alphabet, config, RequestBodyMaxSize, ResponseBodyMaxSize, method, br, bw,
                 source, got, srcRet, readRet, sink, writes, sinkRet, ret,
                 sinkReaderFrom, copied, rf, status, errors, panicked,
                 ctxVars, copyVars, schedVars>>

\* The identifiers a client sends in X-Request-Id; "" is a request without one.
InboundIDs == {"", "client-a", "client-b"}

\* The request headers of a request that carries the identifier id, or none.
HeadersWithID(id) ==
  IF id = "" THEN NoEntries ELSE Put(NoEntries, RequestIDHeaderKey, id)

\* The server hands the next request to the middleware: a new context, with
\* its own headers and an empty store; the generator and the logger are
\* those of the process.
NextRequest ==
  /\ pc = "done"
  /\ handler = "returns"
  /\ Len(served) + 1 < MaxRequests
  /\ served' = Append(served, [inbound |-> GetHeader(reqHeader, RequestIDHeaderKey),
                                id |-> GetRequestID(keys)])
  /\ \E id \in InboundIDs : reqHeader' = HeadersWithID(id)
  /\ respHeader' = NoEntries
  /\ keys' = NoEntries
  /\ requestID' = ""
  /\ attached' = <<>>
  /\ nexts' = 0
  /\ br' = NoWrapper
  /\ bw' = NoWrapper
  /\ evals' = <<>>
  /\ pc' = "setup"
  /\ UNCHANGED <<handler, alphabet, config, RequestBodyMaxSize, ResponseBodyMaxSize, method, source,
                 got, srcRet, readRet, sink, writes, sinkRet, ret,
                 sinkReaderFrom, copied, rf, status, errors, log, panicked,
                 uuids, span, copyVars, schedVars>>

\* The scheduler takes the running invocation off and lets the one of request
\* i run, between two calls; an invocation that has returned runs no more.
\* The Config, the package variables, the logger and the identifier
\* generator are those of the process.
Switch ==
  \E i \in DOMAIN parked \ {cur} :
    /\ parked[i].pc # "done"
    /\ cur' = i
    /\ parked' = [parked EXCEPT ![cur] = Frame, ![i] = NoFrame]
    /\ LET f == Resume(parked[i]) IN
         /\ pc' = f.pc
         /\ handler' = f.handler
         /\ alphabet' = f.alphabet
         /\ method' = f.method
         /\ br' = f.br
         /\ bw' = f.bw
         /\ source' = f.source
         /\ got' = f.got
         /\ srcRet' = f.srcRet
         /\ readRet' = f.readRet
         /\ sink' = f.sink
         /\ writes' = f.writes
         /\ sinkRet' = f.sinkRet
         /\ ret' = f.ret
         /\ sinkReaderFrom' = f.sinkReaderFrom
         /\ copied' = f.copied
         /\ rf' = f.rf
         /\ status' = f.status
         /\ errors' = f.errors
         /\ evals' = f.evals
         /\ panicked' = f.panicked
         /\ reqHeader' = f.reqHeader
         /\ respHeader' = f.respHeader
         /\ keys' = f.keys
         /\ requestID' = f.requestID
         /\ span' = f.span
         /\ attached' = f.attached
         /\ nexts' = f.nexts
         /\ stalled' = f.stalled
         /\ rfCall' = f.rfCall
    /\ UNCHANGED <<config, RequestBodyMaxSize, ResponseBodyMaxSize, log, uuids, served>>

\* ---------------------------------------------------------------- specifications
\* A handler that only reads the request body, or only writes the response
\* through Write, for every capture flag and capacity of the side it uses.
InitIO ==
  \E rec \in BOOLEAN, cap \in 0..MaxCap :
    \/ \E body \in Slices(Byte, MaxBytes) :
         InitWith("reads", Byte, rec, FALSE, <<>>, cap, 0, "POST", body, FALSE)
    \/ InitWith("writes", Byte, FALSE, rec, <<>>, 0, cap, "GET", <<>>, FALSE)

NextIO == Setup \/ Read \/ Write \/ Finalize

SpecIO == InitIO /\ [][NextIO]_vars

\* A handler that reads, or that writes through Write and ReadFrom, with
\* capture off (no buffer) or with a capacity of 0 on the side it uses.
\* Nothing is captured, so every byte is 0 here.
InitDisabled ==
  \E rec \in BOOLEAN, cap \in 0..MaxCap :
    /\ rec => cap = 0
    /\ \/ \E body \in Slices({0}, MaxBytes) :
            InitWith("reads", {0}, rec, FALSE, <<>>, cap, 0, "POST", body, FALSE)
       \/ \E readerFrom \in BOOLEAN :
            InitWith("writes", {0}, FALSE, rec, <<>>, 0, cap, "GET", <<>>, readerFrom)

NextDisabled ==
  \/ Setup
  \/ Read
  \/ Write
  \/ ReadFromDelegate
  \/ ReadFromWriterTo
  \/ WriterToReturn
  \/ ReadFromRelay
  \/ RelayStep
  \/ Finalize

SpecDisabled == InitDisabled /\ [][NextDisabled]_vars

\* A handler that only sets the status and records errors.
InitLog ==
  \E fs \in SeqsUpTo(FilterSet, MaxFilters), m \in Methods :
    InitWith("responds", Byte, FALSE, FALSE, fs, 0, 0, m, <<>>, FALSE)

NextLog == Setup \/ SetStatus \/ AddError \/ Finalize

SpecLog == InitLog /\ [][NextLog]_vars

\* Requests served one after the other by one middleware, with and without
\* an inbound identifier, by a handler that returns at once.
InitID ==
  \E withID \in BOOLEAN, id \in InboundIDs :
    /\ InitRequest("returns", Byte, [ConfigWith(FALSE, FALSE, <<>>) EXCEPT !.WithRequestID = withID], 0, 0, "GET", <<>>, FALSE, HeadersWithID(id), NoSpan)
    /\ Alone

NextID == Setup \/ Finalize \/ NextRequest

SpecID == InitID /\ [][NextID]_vars

\* The header maps of at most MaxHeaders names.
HeaderMaps ==
  UNION {[D -> HeaderValues] : D \in {S \in SUBSET HeaderNames : Cardinality(S) <= MaxHeaders}}

\* The spans a request's context can carry.
Spans ==
  {NoSpan,
   [recording |-> TRUE, traceID |-> "t1", spanID |-> "s1"],
   [recording |-> TRUE, traceID |-> "t1", spanID |-> ""],
   [recording |-> FALSE, traceID |-> "t1", spanID |-> "s1"]}

\* A handler that sets response headers, for every header capture flag and
\* request header map; or a handler that attaches attributes, for every
\* identifier flag, trace flag and span.
InitAttrs ==
  /\ Alone
  /\ \/ \E withID \in BOOLEAN, reqOn \in BOOLEAN, respOn \in BOOLEAN, hdr \in HeaderMaps :
       InitRequest("decorates", Byte, [ConfigWith(FALSE, FALSE, <<>>) EXCEPT !.WithRequestID = withID, !.WithRequestHeader = reqOn, !.WithResponseHeader = respOn], 0, 0, "GET", <<>>, FALSE, hdr, NoSpan)
     \/ \E withID \in BOOLEAN, withTrace \in BOOLEAN, withSpan \in BOOLEAN, sp \in Spans :
       InitRequest("attaches", Byte, [ConfigWith(FALSE, FALSE, <<>>) EXCEPT !.WithRequestID = withID, !.WithTraceID = withTrace, !.WithSpanID = withSpan], 0, 0, "GET", <<>>, FALSE, NoEntries, sp)

NextAttrs == Setup \/ SetHeader \/ Attach \/ Finalize

SpecAttrs == InitAttrs /\ [][NextAttrs]_vars

\* A handler that sends the response in one call of ReadFrom, for every
\* capture flag and capacity and for a wrapped writer with and without a
\* ReadFrom of its own.
InitRelay ==
  \E rec \in BOOLEAN, cap \in 0..MaxCap, readerFrom \in BOOLEAN :
    InitWith("copies", Byte, FALSE, rec, <<>>, 0, cap, "GET", <<>>, readerFrom)

NextRelay ==
  \/ Setup
  \/ Write
  \/ ReadFromDelegate
  \/ ReadFromWriterTo
  \/ WriterToReturn
  \/ ReadFromRelay
  \/ RelayStep
  \/ Finalize

SpecRelay == InitRelay /\ [][NextRelay]_vars

\* A turn of the relay in which the source returns bytes, an error or EOF.
RelayProgress == RelayStep /\ (rf'.mode = "none" \/ writes' # writes)

\* The same handler, every byte 0, the relay loop running as long as it can:
\* a loop that has not ended takes its next turn, and a source that is not
\* stalled comes to return bytes, an error or EOF.
InitRelayFair ==
  \E rec \in BOOLEAN, readerFrom \in BOOLEAN :
    InitWith("copies", {0}, FALSE, rec, <<>>, 0, MaxCap, "GET", <<>>, readerFrom)

SpecRelayFair ==
  InitRelayFair /\ [][NextRelay]_vars /\ WF_vars(RelayStep) /\ WF_vars(RelayProgress)

\* A handler that reads the request body, writes the response and sets the
\* status, both captures on with a capacity of 1, with and without a filter
\* that rejects the server errors.
InitLife ==
  \E fs \in {<<>>, <<"IgnoreServerError">>} :
    InitWith("serves", {0}, TRUE, TRUE, fs, 1, 1, "GET", <<0, 0>>, FALSE)

NextLife == Setup \/ Read \/ Write \/ SetStatus \/ Finalize

SpecLife == InitLife /\ [][NextLife]_vars

\* The body of request i and the bytes its handler writes: i, twice.
EchoBody(i) == <<i, i>>

\* MaxConc requests in the middleware at once, each with a handler that reads
\* its body and writes back what it read, in calls of any size that the
\* scheduler interleaves as it likes; both captures on or off, with a
\* capacity of 1.  The bytes of request i are i.
InitConc ==
  \E rec \in BOOLEAN :
    /\ InitRequest("echoes", {1}, ConfigWith(rec, rec, <<>>), 1, 1, "POST", EchoBody(1), FALSE, NoEntries, NoSpan)
    /\ cur = 1
    /\ parked = [i \in 1..MaxConc |->
                  IF i = 1 THEN NoFrame
                  ELSE NewFrame("echoes", {i}, "POST", EchoBody(i), FALSE, NoEntries, NoSpan)]

NextConc == Setup \/ Read \/ Write \/ Finalize \/ Switch

SpecConc == InitConc /\ [][NextConc]_vars

\* ---------------------------------------------------------------- claims
\* The last slice given to bodyWriter.Write.
LastWrite == writes[Len(writes)]

\* C1: with response capture enabled, after any sequence of Write calls whose
\* sizes sum to S the capture buffer holds min(S, C) bytes, C its capacity.
C1_LengthIsMinOfTotalAndCapacity ==
  (pc # "setup" /\ bw.hasBody) => Len(bw.body) = Min2(SumLen(writes), bw.maxSize)

\* The case of the claim's example: capacity 10, 8 bytes buffered, 5 more bytes.
Buffered8 == [i \in 1..8 |-> 0]
Next5 == [i \in 1..5 |-> 1]

\* C2: the capture buffers of bodyWriter and bodyReader never hold more than
\* maxSize bytes, whatever the size of one Write or Read, and no call panics
\* on its slice bounds; capacity 10 with 8 bytes buffered and 5 more gives 10.
C2_BufferWithinCapacity ==
  /\ Len(bw.body) <= bw.maxSize
  /\ Len(br.body) <= br.maxSize
  /\ ~panicked
  /\ Len(BodyAfterWrite(Buffered8, Next5, 10)) = 10
  /\ Len(BodyAfterRead(Buffered8, Next5, 5, 10)) = 10

\* C2's case: a second Write larger than the room the first one left.
C2_Witness ==
  /\ bw.hasBody
  /\ Len(writes) = 2
  /\ 0 < Len(writes[1])
  /\ Len(writes[1]) < bw.maxSize
  /\ Len(writes[1]) + Len(writes[2]) > bw.maxSize
  /\ Len(bw.body) = bw.maxSize

\* C3: the wrapped writer receives one Write per call of bodyWriter.Write, with
\* the whole slice, in the same order, and each call returns the count and the
\* error the wrapped writer returned.
C3_WriteIsForwardedWhole ==
  /\ sink = writes
  /\ ret.op = "Write" => (ret.n = sinkRet.n /\ ret.err = sinkRet.err)

\* C3's case: the buffer is full, and the wrapped writer accepted only a part
\* of the last slice and failed.
C3_Witness ==
  /\ bw.hasBody
  /\ Len(writes) = 2
  /\ SumLen(writes) > bw.maxSize
  /\ Len(LastWrite) > 1
  /\ sink[2] = LastWrite
  /\ ret = [op |-> "Write", n |-> 1, err |-> ErrSink]

\* C4: the bytes counter of bodyWriter is the sum of the lengths of the slices
\* written, whatever the capture and whatever the wrapped writer returned.
C4_BytesCountsEveryByteWritten == bw.bytes = SumLen(writes)

\* C4's case: more bytes written than the buffer takes, the last ones to a
\* wrapped writer that accepted none of them.
C4_Witness ==
  /\ bw.hasBody
  /\ Len(writes) = 2
  /\ SumLen(writes) > bw.maxSize
  /\ Len(LastWrite) > 0
  /\ sinkRet = [n |-> 0, err |-> ErrSink]
  /\ bw.bytes = SumLen(writes)

\* C5: bodyReader.Read returns the count and the error of the wrapped body's
\* Read and leaves the caller's slice as the wrapped body filled it.
C5_ReadIsTransparent == readRet = srcRet

\* C5's case: a Read that returns the last bytes together with EOF, more of
\* them than the buffer takes.
C5_Witness ==
  /\ br.hasBody
  /\ readRet.err = EOF
  /\ readRet.n > br.maxSize
  /\ readRet.n < Len(readRet.b)
  /\ Prefix(readRet.b, readRet.n) = SubSeq(got, Len(got) - readRet.n + 1, Len(got))

\* C6: with request capture enabled, after Read calls that returned S bytes the
\* capture buffer holds the first min(S, C) of them and the bytes counter is S.
C6_ReadCapturesPrefix ==
  (pc # "setup" /\ br.hasBody) =>
    /\ Len(br.body) = Min2(Len(got), br.maxSize)
    /\ br.body = Prefix(got, Min2(Len(got), br.maxSize))
    /\ br.bytes = Len(got)

\* C6's case: a Read that straddles the capacity, after an earlier Read.
C6_Witness ==
  /\ br.hasBody
  /\ 0 < br.maxSize
  /\ readRet.n > 0
  /\ Len(got) - readRet.n > 0
  /\ Len(got) - readRet.n < br.maxSize
  /\ Len(got) > br.maxSize
  /\ br.body = Prefix(got, br.maxSize)
  /\ 1 \in {got[i] : i \in 1..br.maxSize}
  /\ 0 \in {got[i] : i \in 1..br.maxSize}

\* C7: with capture off or a capacity of 0, nothing is ever captured on either
\* side, and the bytes counters are the bytes written through Write and
\* ReadFrom and the bytes returned by Read.
C7_DisabledCapturesNothing ==
  /\ (~config.WithResponseBody \/ ResponseBodyMaxSize = 0) => Len(bw.body) = 0
  /\ (~config.WithRequestBody \/ RequestBodyMaxSize = 0) => Len(br.body) = 0
  /\ bw.bytes = SumLen(writes) + copied
  /\ br.bytes = Len(got)

\* C7's case: capture off with room in the capacity, bytes written through
\* Write and through the wrapped writer's own ReadFrom.
C7_Witness ==
  /\ ~config.WithResponseBody
  /\ ResponseBodyMaxSize > 0
  /\ SumLen(writes) > 0
  /\ copied > 0
  /\ bw.bytes = SumLen(writes) + copied
  /\ bw.body = <<>>

\* C8: a record is emitted at ClientErrorLevel for a final status in 400..499,
\* at ServerErrorLevel for one in 500..599, and at DefaultLevel for one in
\* 100..399.
C8_LevelFollowsStatusBand ==
  \A i \in 1..Len(log) :
    LET st == log[i].response.status
        level == log[i].level
    IN /\ st = status
       /\ st \in 400..499 => level = config.ClientErrorLevel
       /\ st \in 500..599 => level = config.ServerErrorLevel
       /\ st \in 100..399 => level = config.DefaultLevel

\* C8's case: a record of the last status of the client-error band.
C8_Witness ==
  /\ Len(log) = 1
  /\ log[1].response.status = 499
  /\ log[1].level = LevelWarn

\* C9, as claimed: the message is "Incoming request" when the handler recorded
\* no error and c.Errors.String() when it recorded one, for every final status.
C9_MessageFollowsErrors ==
  \A i \in 1..Len(log) :
    /\ errors = <<>> => log[i].msg = IncomingRequest
    /\ errors # <<>> => log[i].msg = ErrorsString(errors)

\* C9, amended: the message is "Incoming request" for a final status below 400
\* and c.Errors.String() for a final status of 400 or more, whether or not the
\* handler recorded errors.
C9_MessageFollowsStatus ==
  \A i \in 1..Len(log) :
    /\ status < 400 => log[i].msg = IncomingRequest
    /\ status >= 400 => log[i].msg = ErrorsString(errors)

\* C9's case: the handler recorded an error and left a status below 400.
C9_Witness ==
  /\ Len(log) = 1
  /\ errors # <<>>
  /\ status < 400
  /\ log[1].msg = IncomingRequest

\* C10: the filters are evaluated in their order after the handler returned,
\* up to the first that answers false; a record is emitted exactly when none
\* answers false; a single filter rejecting DELETE suppresses the records of
\* the DELETE requests and of no other.
C10_FiltersShortCircuit ==
  LET fs == config.Filters
      rejecting == {i \in 1..Len(fs) : ~FilterEval(fs[i], method, status)}
      last == IF rejecting = {} THEN Len(fs)
              ELSE CHOOSE i \in rejecting : \A j \in rejecting : i <= j
  IN /\ pc # "done" => (evals = <<>> /\ log = <<>>)
     /\ pc = "done" =>
          /\ evals = [i \in 1..last |-> i]
          /\ Len(log) = (IF rejecting = {} THEN 1 ELSE 0)
     /\ (pc = "done" /\ fs = <<"IgnoreDELETE">>) => (log = <<>> <=> method = "DELETE")

\* C10's case: the first of two filters rejects a DELETE request.
C10_Witness ==
  /\ pc = "done"
  /\ config.Filters = <<"IgnoreDELETE", "IgnoreServerError">>
  /\ method = "DELETE"
  /\ status >= 500
  /\ evals = <<1>>
  /\ log = <<>>

\* The requests so far, the one in progress last: what each carried in
\* X-Request-Id and what GetRequestID returns for it.
Requests ==
  IF pc = "setup" THEN served
  ELSE Append(served, [inbound |-> GetHeader(reqHeader, RequestIDHeaderKey),
                       id |-> GetRequestID(keys)])

\* The requests that carried no identifier.
Generated == {i \in 1..Len(Requests) : Requests[i].inbound = ""}

\* The values of the id attributes of a record.
IDAttributes(rec) ==
  {rec.attributes[j].value :
     j \in {k \in 1..Len(rec.attributes) : rec.attributes[k].key = RequestIDKey}}

\* C11: with WithRequestID, a request carrying a non-empty X-Request-Id has
\* that value in the context (GetRequestID) and as the id attribute of its
\* record, and no identifier is generated for it; a request without one gets a
\* generated identifier, different from that of every other such request.
C11_InboundKeptElseFresh ==
  config.WithRequestID =>
    /\ \A i \in 1..Len(Requests) :
         Requests[i].inbound # "" => Requests[i].id = Requests[i].inbound
    /\ \A i \in Generated : Requests[i].id \notin InboundIDs
    /\ \A i \in Generated : \A j \in Generated :
         i # j => Requests[i].id # Requests[j].id
    /\ uuids = Cardinality(Generated)
    /\ \A i \in 1..Len(log) : IDAttributes(log[i]) = {Requests[i].id}

\* C11's case: a request without an identifier, one with, and another without.
C11_Witness ==
  /\ config.WithRequestID
  /\ pc = "done"
  /\ Len(log) = 3
  /\ served[1].inbound = ""
  /\ served[2].inbound = "client-a"
  /\ IDAttributes(log[2]) = {"client-a"}
  /\ GetHeader(reqHeader, RequestIDHeaderKey) = ""
  /\ GetRequestID(keys) # served[1].id
  /\ uuids = 2

\* C12: with WithRequestID, when the handler is invoked the response header
\* X-Request-Id holds the request's identifier, inbound or generated.
C12_HeaderSetBeforeHandler ==
  (config.WithRequestID /\ pc = "handler") =>
    /\ RequestIDHeaderKey \in DOMAIN respHeader
    /\ respHeader[RequestIDHeaderKey] = GetRequestID(keys)

\* The deny-set of the claim.
DenySet ==
  {"authorization", "cookie", "set-cookie", "x-auth-token", "x-csrf-token", "x-xsrf-token"}

\* The entries of a header map whose lowercased name is outside a set.
Outside(h, deny) == [k \in {n \in DOMAIN h : ToLower(n) \notin deny} |-> h[k]]

\* C13, as claimed: with header capture, the request header group and the
\* response header group hold every header whose lowercased name is outside
\* the deny-set and no other.
C13_DenySetHiddenOnBothSides ==
  \A i \in 1..Len(log) :
    /\ log[i].request.hasHeader => log[i].request.header = Outside(reqHeader, DenySet)
    /\ log[i].response.hasHeader => log[i].response.header = Outside(respHeader, DenySet)

\* C13, amended: the request header group holds every request header whose
\* lowercased name is outside the deny-set and no other; the response header
\* group holds every response header but set-cookie.
C13_HiddenPerSide ==
  \A i \in 1..Len(log) :
    /\ log[i].request.hasHeader => log[i].request.header = Outside(reqHeader, DenySet)
    /\ log[i].response.hasHeader =>
         log[i].response.header = Outside(respHeader, {"set-cookie"})

\* C13's case: a request with Authorization and Content-Type, a response with
\* Set-Cookie, in lower case, and x-csrf-token.
C13_Witness ==
  /\ Len(log) = 1
  /\ log[1].request.hasHeader
  /\ log[1].response.hasHeader
  /\ DOMAIN reqHeader = {"Authorization", "Content-Type"}
  /\ DOMAIN log[1].request.header = {"Content-Type"}
  /\ DOMAIN respHeader = {"set-cookie", "x-csrf-token"}
  /\ DOMAIN log[1].response.header = {"x-csrf-token"}

\* The keys of the built-in attributes of a record, in their order.
BuiltinKeys ==
  <<"request", "response">>
    \o (IF config.WithRequestID THEN <<RequestIDKey>> ELSE <<>>)
    \o (IF config.WithTraceID /\ span.recording /\ span.traceID # ""
          THEN <<TraceIDKey>> ELSE <<>>)
    \o (IF config.WithSpanID /\ span.recording /\ span.spanID # ""
          THEN <<SpanIDKey>> ELSE <<>>)

\* C14: the attributes of a record are the built-in ones followed by the
\* attributes the handler attached, each once, in the order of attachment.
C14_CustomAttributesLastInOrder ==
  \A i \in 1..Len(log) :
    LET attrs == log[i].attributes
        nb == Len(BuiltinKeys)
    IN /\ Len(attrs) = nb + Len(attached)
       /\ \A j \in 1..nb : attrs[j].key = BuiltinKeys[j]
       /\ \A j \in 1..Len(attached) : attrs[nb + j] = attached[j]

\* C14's case: two attributes of the same key attached one after the other,
\* in a request with an identifier and a trace identifier.
C14_Witness ==
  /\ Len(log) = 1
  /\ attached = <<[key |-> "user", value |-> "u2"], [key |-> "user", value |-> "u1"]>>
  /\ Len(log[1].attributes) = 6
  /\ log[1].attributes[4].key = TraceIDKey
  /\ log[1].attributes[5].value = "u2"
  /\ log[1].attributes[6].value = "u1"

\* The turns of the relay of the latest ReadFrom call, the last of them, and
\* whether that relay has returned.
Turns == rfCall.turns
LastTurn == Turns[Len(Turns)]
RelayReturned == rfCall.path = "relay" /\ rf.mode = "none" /\ ret.op = "ReadFrom"

\* The bytes the sink accepted in a turn: its count, when it is one (a count
\* below 0 or above the bytes given accepts nothing).
Accepted(t) == IF t.nw >= 0 /\ t.nw <= t.nr THEN t.nw ELSE 0

RECURSIVE SumAccepted(_)
SumAccepted(ts) == IF ts = <<>> THEN 0 ELSE Accepted(Head(ts)) + SumAccepted(Tail(ts))

RECURSIVE SumRead(_)
SumRead(ts) == IF ts = <<>> THEN 0 ELSE Head(ts).nr + SumRead(Tail(ts))

\* The turns whose write returned an error or fewer bytes than it was given.
FailedTurns == {i \in 1..Len(Turns) : Turns[i].ew # nil \/ Turns[i].nw < Turns[i].nr}

\* C15: in the relay of ReadFrom, a write that returns an error or fewer bytes
\* than it was given is the last turn, and ReadFrom returns an error, the
\* sink's when it gave one; ReadFrom returns nil only if the sink accepted
\* every byte read, and the count it returns is the bytes the sink accepted.
C15_RelayPropagatesWriteFailures ==
  rfCall.path = "relay" =>
    /\ \A i \in FailedTurns : i = Len(Turns) /\ RelayReturned
    /\ (RelayReturned /\ FailedTurns # {}) =>
         /\ ret.err # nil
         /\ LastTurn.ew # nil => ret.err = LastTurn.ew
    /\ RelayReturned =>
         /\ ret.err = nil => SumAccepted(Turns) = SumRead(Turns)
         /\ ret.n = SumAccepted(Turns)

\* C15's case: a full turn, then a turn of which the sink accepts a part and
\* fails.
C15_Witness ==
  /\ RelayReturned
  /\ Len(Turns) = 2
  /\ Turns[1].nw = Turns[1].nr
  /\ LastTurn.nw > 0
  /\ LastTurn.nw < LastTurn.nr
  /\ LastTurn.ew = ErrSink
  /\ ret = [op |-> "ReadFrom", n |-> Turns[1].nr + LastTurn.nw, err |-> ErrSink]

\* C16, as claimed: a write that returns fewer bytes than it was given and no
\* error, none at all included, makes ReadFrom return errInvalidWrite.
C16_ShortWriteIsInvalidWrite ==
  (RelayReturned /\ Turns # <<>>) =>
    ((LastTurn.ew = nil /\ LastTurn.nw >= 0 /\ LastTurn.nw < LastTurn.nr)
       => ret.err = errInvalidWrite)

\* C16, amended: such a write makes ReadFrom return io.ErrShortWrite; a write
\* that returns no error and a count below 0 or above the bytes it was given
\* makes it return errInvalidWrite.
C16_ShortWriteIsErrShortWrite ==
  (RelayReturned /\ Turns # <<>>) =>
    /\ (LastTurn.ew = nil /\ LastTurn.nw >= 0 /\ LastTurn.nw < LastTurn.nr)
         => ret.err = ErrShortWrite
    /\ (LastTurn.ew = nil /\ (LastTurn.nw < 0 \/ LastTurn.nw > LastTurn.nr))
         => ret.err = errInvalidWrite

\* C16's case: the sink accepts none of the bytes of the first turn.
C16_Witness ==
  /\ RelayReturned
  /\ Len(Turns) = 1
  /\ LastTurn.nr > 1
  /\ LastTurn.nw = 0
  /\ LastTurn.ew = nil
  /\ ret = [op |-> "ReadFrom", n |-> 0, err |-> ErrShortWrite]

\* C17, as claimed: the relay loop of ReadFrom ends, whatever the source and
\* the sink do.
C17_RelayAlwaysReturns == (rf.mode = "relay") ~> (rf.mode = "none")

\* C17, amended: the relay loop ends unless the source answers (0, nil) for
\* ever.
C17_RelayReturnsUnlessStalled == (rf.mode = "relay" /\ ~stalled) ~> (rf.mode = "none")

\* C17's case: the relay has returned nil after two turns, on the source's EOF.
C17_Witness ==
  /\ RelayReturned
  /\ ~stalled
  /\ Len(Turns) = 2
  /\ ret.err = nil
  /\ ret.n = SumLen(writes)

\* The bytes written through the wrapper, and those handed to the wrapped
\* writer, since the latest ReadFrom call began.
Stream == Concat(SubSeq(writes, rfCall.at + 1, Len(writes)))
Sunk == Concat(SubSeq(sink, rfCall.at + 1, Len(sink)))

\* C18: with a buffer ReadFrom never delegates, and after it returned nil the
\* buffer, the bytes counter and the bytes handed to the wrapped writer are
\* those of one Write of the stream; without a buffer and with a wrapped
\* writer that has ReadFrom it delegates and adds the count reported.
C18_ReadFromIsWrite ==
  /\ rfCall.path = "delegate" <=> (rfCall.path # "none" /\ Delegates(rfCall.w, sinkReaderFrom))
  /\ (rfCall.path \in {"relay", "writerto"} /\ rf.mode = "none"
        /\ ret.op = "ReadFrom" /\ ret.err = nil) =>
       /\ bw.body = bodyWriterWrite(rfCall.w, Stream, NoResult).w.body
       /\ bw.bytes = bodyWriterWrite(rfCall.w, Stream, NoResult).w.bytes
       /\ Sunk = bodyWriterWrite(rfCall.w, Stream, NoResult).forwarded
  /\ (rfCall.path = "delegate" /\ ret.op = "ReadFrom") =>
       /\ bw.bytes = rfCall.w.bytes + ret.n
       /\ Len(writes) = rfCall.at

\* Whether every filter of the configuration lets the request through.
AllFiltersPass ==
  \A i \in 1..Len(config.Filters) : FilterEval(config.Filters[i], method, status)

\* What holds in each phase of a request.
PhaseInvariant ==
  /\ pc = "setup" => (nexts = 0 /\ got = <<>> /\ writes = <<>> /\ log = <<>>)
  /\ pc = "handler" =>
       /\ nexts = 1
       /\ log = <<>>
       /\ br.hasBody = config.WithRequestBody /\ br.maxSize = RequestBodyMaxSize
       /\ bw.hasBody = config.WithResponseBody /\ bw.maxSize = ResponseBodyMaxSize
       /\ br.bytes = Len(got)
       /\ bw.bytes = SumLen(writes)
  /\ pc = "done" =>
       /\ nexts = 1
       /\ Len(log) = (IF AllFiltersPass THEN 1 ELSE 0)
       /\ \A i \in 1..Len(log) :
            /\ log[i].request.length = Len(got)
            /\ log[i].response.length = SumLen(writes)
            /\ log[i].response.status = status

\* C19: a request goes from Setup to Dispatch to Finalize and nowhere else;
\* the wrappers are installed when the handler chain is entered, it is entered
\* once, nothing is emitted before it returns, and what is emitted then is
\* one record, when every filter passes, with the byte counts and the status
\* of that moment.
C19_PhasesInOrder ==
  /\ []PhaseInvariant
  /\ [][pc' # pc => (<<pc, pc'>> \in {<<"setup", "handler">>, <<"handler", "done">>})]_vars
  /\ [][pc = "done" => UNCHANGED <<log, br, bw, status>>]_vars

\* C19's case: a request whose handler read, wrote more than the buffer takes
\* and left a client error, under a filter that lets it through.
C19_Witness ==
  /\ pc = "done"
  /\ config.Filters = <<"IgnoreServerError">>
  /\ Len(log) = 1
  /\ log[1].request.length = 2
  /\ log[1].response.length = 2
  /\ log[1].response.body = <<0>>
  /\ log[1].response.status = StatusBadRequest
  /\ log[1].level = LevelWarn

\* C20: the buffer of bodyWriter holds the first min(S, C) bytes of the
\* concatenation of the slices written, so no Write removes or replaces a
\* byte captured before.
C20_BufferIsPrefixOfWritten ==
  (pc # "setup" /\ bw.hasBody) =>
    bw.body = Prefix(Concat(writes), Min2(SumLen(writes), bw.maxSize))

\* The requests in the middleware.
Invocations == DOMAIN parked

RECURSIVE WriterAfter(_, _)
\* The bodyWriter w after the writes ws, each accepted whole, and no other call.
WriterAfter(w, ws) ==
  IF ws = <<>> THEN w
  ELSE WriterAfter(bodyWriterWrite(w, Head(ws), [n |-> Len(Head(ws)), err |-> nil]).w,
                   Tail(ws))

\* The bodyReader after the wrapped body returned the bytes g, and no other call.
ReaderAfter(g) ==
  [newBodyReader(RequestBodyMaxSize, config.WithRequestBody)
     EXCEPT !.bytes = Len(g),
            !.body = IF config.WithRequestBody
                     THEN Prefix(g, Min2(RequestBodyMaxSize, Len(g))) ELSE <<>>]

\* The wrappers of the invocation f are what its own calls alone make them,
\* and hold no byte of another request.
OwnWrappers(f) ==
  f.pc \in {"handler", "done"} =>
    /\ f.br = ReaderAfter(f.got)
    /\ f.bw = WriterAfter(newBodyWriter(ResponseBodyMaxSize, config.WithResponseBody),
                          f.writes)
    /\ \A k \in DOMAIN f.br.body : f.br.body[k] \in f.alphabet
    /\ \A k \in DOMAIN f.bw.body : f.bw.body[k] \in f.alphabet

\* The records that carry the identifier of the invocation f.
RecordsOf(f) == {k \in DOMAIN log : f.requestID \in IDAttributes(log[k])}

\* An invocation that has returned has one record, with the counts and the
\* captured bodies of its own wrappers; one that has not has none.
OwnRecord(f) ==
  IF f.pc = "done"
  THEN \E k \in DOMAIN log :
         /\ RecordsOf(f) = {k}
         /\ log[k].request.length = Len(f.got)
         /\ log[k].request.body = f.br.body
         /\ log[k].response.length = SumLen(f.writes)
         /\ log[k].response.body = f.bw.body
  ELSE RecordsOf(f) = {}

\* C21: with several requests in the same middleware at once, their reads and
\* writes interleaved in any way, the capture buffers and the byte counters
\* of each request reflect that request's own bytes only, and each record
\* reports the counts and the captured bodies of its own request.
C21_WrappersAreRequestLocal ==
  /\ \A i \in Invocations : OwnWrappers(FrameOf(i)) /\ OwnRecord(FrameOf(i))
  /\ Len(log) = Cardinality({i \in Invocations : FrameOf(i).pc = "done"})

\* C21's case: request 2 entered after request 1, was served whole and has
\* its record, while request 1 is still in its handler, having written twice.
C21_Witness ==
  /\ cur = 1
  /\ pc = "handler"
  /\ writes = <<<<1>>, <<1>>>>
  /\ config.WithResponseBody
  /\ parked[2].pc = "done"
  /\ parked[2].writes = <<<<2, 2>>>>
  /\ parked[2].requestID = uuidNew(2)
  /\ Len(log) = 1
  /\ log[1].response.body = <<2>>

====
